---- MODULE Spec2Model ----
(***************************************************************************)
(* Password Strength Meter (src/app.py): check_password_strength, the      *)
(* percentage / colour / tier mapping of the page script, and              *)
(* generate_strong_password.                                               *)
(*                                                                         *)
(* A Python str is a sequence of Unicode code points.  A score is kept in  *)
(* halves (the integer 2*score), since the only non-integral scores the    *)
(* program computes are (basic_score + advanced_score) / 2.                *)
(***************************************************************************)
EXTENDS Integers, Sequences, FiniteSets, TLC

\* ------------------------------------------------------------------ bounds
\* longest free-form prefix of an input password
MaxCore == 2
\* length of the run of one repeated character that may follow the prefix
PadLen == 7
\* longest suggestion list the estimator returns
MaxSugg == 2
\* largest length asked of the generator
MaxGenLen == 2

\* ------------------------------------------------------------ code points
\* 'A', 'a', '1', '!' and U+0663 ARABIC-INDIC DIGIT THREE
Alphabet == {65, 97, 49, 33, 1635}

Range(lo, hi) == [i \in 1..(hi - lo + 1) |-> lo + i - 1]

\* string.ascii_letters = ascii_lowercase + ascii_uppercase
ascii_letters == Range(97, 122) \o Range(65, 90)

\* string.digits
digits == Range(48, 57)

\* "!@#$%^&*"
SPECIALS == <<33, 64, 35, 36, 37, 94, 38, 42>>

\* the characters [A-Z] matches
UPPER_CLASS == 65..90

\* the characters [a-z] matches
LOWER_CLASS == 97..122

\* the characters \d matches in a str pattern (Unicode category Nd): the
\* ASCII digits and, of the other Nd blocks, the Arabic-Indic digits
DIGIT_CLASS == (48..57) \cup (1632..1641)

\* ---------------------------------------------------------------- strings
RECURSIVE SeqsUpTo(_, _)
SeqsUpTo(S, n) ==
    IF n = 0 THEN {<<>>}
    ELSE LET shorter == SeqsUpTo(S, n - 1)
         IN  shorter \cup {Append(s, c) : s \in {t \in shorter : Len(t) = n - 1}, c \in S}

Fill(c, k) == [i \in 1..k |-> c]

\* a comparison that forgets .lower()
unchanged_case(s) == s

\* str.lower(), on the characters whose case mapping the model needs
LowerChar(c) == IF c \in 65..90 THEN c + 32 ELSE c

UpperChar(c) == IF c \in 97..122 THEN c - 32 ELSE c

lower(s) == [i \in 1..Len(s) |-> LowerChar(s[i])]

\* re.search(r"[...]", s): some character of s is in the class
search(class, s) == \E i \in 1..Len(s) : s[i] \in class

\* COMMON_PASSWORDS = ['password', '123456', '12345678', 'qwerty', 'abc123']
COMMON_PASSWORDS ==
    { <<112, 97, 115, 115, 119, 111, 114, 100>>,
      <<49, 50, 51, 52, 53, 54>>,
      <<49, 50, 51, 52, 53, 54, 55, 56>>,
      <<113, 119, 101, 114, 116, 121>>,
      <<97, 98, 99, 49, 50, 51>> }

MSG_INVALID == "Invalid input: password must be a string."
MSG_COMMON  == "This password is too common. Please choose a different one."
MSG_LENGTH  == "Password should be at least 8 characters long."
MSG_CASE    == "Include both uppercase and lowercase letters."
MSG_DIGIT   == "Add at least one number (0-9)."
MSG_SPECIAL == "Include at least one special character (!@#$%^&*)."

\* ----------------------------------------------------------------- inputs
RECURSIVE CaseVariants(_)
CaseVariants(s) ==
    IF s = <<>> THEN {<<>>}
    ELSE {<<x>> \o t : x \in {s[1], UpperChar(s[1])}, t \in CaseVariants(Tail(s))}

Str(s) == [type |-> "str", val |-> s]

\* every case mixture of every common password, and each with one more character
CommonInputs ==
    LET mixes == UNION {CaseVariants(c) : c \in COMMON_PASSWORDS}
    IN  mixes \cup {Append(c, x) : c \in COMMON_PASSWORDS, x \in Alphabet}

\* the examples of the documentation: "Abcdefg1!", "abc", "abcdefgh"
ExampleInputs ==
    { <<65, 98, 99, 100, 101, 102, 103, 49, 33>>,
      <<97, 98, 99>>,
      <<97, 98, 99, 100, 101, 102, 103, 104>> }

StringInputs ==
    {core \o Fill(c, k) : core \in SeqsUpTo(Alphabet, MaxCore),
                          c \in Alphabet, k \in {0, PadLen}}
        \cup CommonInputs \cup ExampleInputs

\* values that are not str: None, the int 123456, b"password", ["qwerty"]
NonStringInputs ==
    { [type |-> "NoneType", val |-> <<>>],
      [type |-> "int",      val |-> <<123456>>],
      [type |-> "bytes",    val |-> <<112, 97, 115, 115, 119, 111, 114, 100>>],
      [type |-> "list",     val |-> <<113, 119, 101, 114, 116, 121>>] }

Inputs == {Str(s) : s \in StringInputs} \cup NonStringInputs

\* what zxcvbn(password) may return: a score 0..4, a warning ('' when there
\* is none) and a list of suggestions
ZxcvbnResults ==
    [score : 0..4, warning : {"", "W"}, suggestions : SeqsUpTo({"S1", "S2"}, MaxSugg)]

NoResult == [score |-> 0, warning |-> "", suggestions |-> <<>>]

\* ------------------------------------------------ check_password_strength
\* isinstance(password, (str, bytes))
is_str_or_bytes(p) == p.type \in {"str", "bytes"}

\* isinstance(password, str)
is_str(p) == p.type = "str"

\* password in COMMON_PASSWORDS
is_common_exact(s) == s \in COMMON_PASSWORDS

\* password.lower() in COMMON_PASSWORDS
is_common(s) == lower(s) \in COMMON_PASSWORDS

\* len(password) >= 8
length_ok(s) == Len(s) >= 8

\* re.search(r"[A-Z]", password) and re.search(r"[a-z]", password)
case_ok(s) == search(UPPER_CLASS, s) /\ search(LOWER_CLASS, s)

\* re.search(r"\d", password)
digit_ok(s) == search(DIGIT_CLASS, s)

\* re.search(r"[!@#$%^&*]", password)
special_ok(s) == search({SPECIALS[i] : i \in 1..Len(SPECIALS)}, s)

\* score = basic_score, in halves
basic_only(basic) == 2 * basic

\* (basic_score + advanced_score) // 2, in halves
average_floor(basic, advanced) == 2 * ((basic + advanced) \div 2)

\* score = (basic_score + advanced_score) / 2, in halves
average(basic, advanced) == basic + advanced

\* the warning appended after the suggestions, and appended even when empty
warning_last(fb, r) == (fb \o r.suggestions) \o <<r.warning>>

\* the warning, if truthy, is appended; the suggestions, if truthy, extend
with_estimator_feedback(fb, r) ==
    LET warned == IF r.warning # "" THEN Append(fb, r.warning) ELSE fb
    IN  IF r.suggestions # <<>> THEN warned \o r.suggestions ELSE warned

\* if ZXCVBN_AVAILABLE: result = zxcvbn(password)
calls_estimator(available) == available

\* -------------------------------------------------------------- page script
Min(a, b) == IF a <= b THEN a ELSE b

\* round(x) for the quotient num/den >= 0, halves going up
round_div(num, den) == (2 * num + den) \div (2 * den)

\* int(x) for the quotient num/den >= 0: truncation
int_div(num, den) == num \div den

\* min(int((score / 4) * 100), 100), the score in halves
percentage(score) == Min(int_div(score * 100, 8), 100)

\* the colour thresholds taken on the score's tier boundaries, 62.5 and 87.5 
get_progress_color_tiers(pct) ==
    IF pct < 63 THEN "#F44336"
    ELSE IF pct < 88 THEN "#FF9800"
    ELSE "#4CAF50"

get_progress_color(pct) ==
    IF pct < 40 THEN "#F44336"
    ELSE IF pct < 70 THEN "#FF9800"
    ELSE "#4CAF50"

\* score >= 3.5 / score >= 2.5 / else, the score in halves
strength_message(score) ==
    IF score >= 7 THEN "Strong"
    ELSE IF score >= 5 THEN "Moderate"
    ELSE "Weak"

\* ----------------------------------------------- generate_strong_password
characters == ascii_letters \o digits \o SPECIALS

\* range(abs(length))
range_abs(n) == IF n >= 0 THEN n ELSE -n

\* the number of iterations of range(length)
range_len(n) == IF n > 0 THEN n ELSE 0

\* ------------------------------------------------------------------ state
VARIABLES
    ZXCVBN_AVAILABLE,     \* set once by the import at startup
    pc,                   \* position of the call of check_password_strength
    password,             \* its argument
    basic_score, feedback, score, result,   \* its locals
    ret,                  \* the (score, feedback) pair it returned
    checks_run,           \* the rule checks evaluated in this call
    zxcvbn_calls,         \* the calls of zxcvbn made in this call
    strength_percentage, bar_color, message,   \* what the page shows
    gen_pc,               \* position of the call of generate_strong_password
    length,               \* its argument
    todo,                 \* iterations of range(length) left
    chosen,               \* the characters drawn so far
    generated             \* the string it returned

evalVars == <<pc, password, basic_score, feedback, score, result, ret,
              checks_run, zxcvbn_calls, strength_percentage, bar_color, message>>
genVars  == <<gen_pc, length, todo, chosen, generated>>
vars     == <<ZXCVBN_AVAILABLE, evalVars, genVars>>

NoInput  == [type |-> "", val |-> <<>>]
NoReturn == [score |-> -1, feedback |-> <<>>]

Init ==
    /\ ZXCVBN_AVAILABLE \in BOOLEAN
    /\ pc = "idle"
    /\ password = NoInput
    /\ basic_score = 0
    /\ feedback = <<>>
    /\ score = 0
    /\ result = NoResult
    /\ ret = NoReturn
    /\ checks_run = {}
    /\ zxcvbn_calls = 0
    /\ strength_percentage = -1
    /\ bar_color = ""
    /\ message = ""
    /\ gen_pc = "idle"
    /\ length = 0
    /\ todo = 0
    /\ chosen = <<>>
    /\ generated = <<>>

\* ---------------------------------------------------------------- actions
\* check_password_strength(p) is called
Call(p) ==
    /\ pc = "idle"
    /\ pc' = "type_check"
    /\ password' = p
    /\ UNCHANGED <<basic_score, feedback, score, result, ret, checks_run,
                   zxcvbn_calls, strength_percentage, bar_color, message>>
    /\ UNCHANGED <<ZXCVBN_AVAILABLE, genVars>>

\* lines 27-28
CheckType ==
    /\ pc = "type_check"
    /\ IF ~is_str(password)
       THEN /\ ret' = [score |-> 0, feedback |-> <<MSG_INVALID>>]
            /\ pc' = "returned"
       ELSE /\ pc' = "common_check"
            /\ UNCHANGED ret
    /\ UNCHANGED <<password, basic_score, feedback, score, result, checks_run,
                   zxcvbn_calls, strength_percentage, bar_color, message>>
    /\ UNCHANGED <<ZXCVBN_AVAILABLE, genVars>>

\* lines 30-34
CheckCommon ==
    /\ pc = "common_check"
    /\ IF is_common(password.val)
       THEN /\ ret' = [score |-> 0, feedback |-> <<MSG_COMMON>>]
            /\ pc' = "returned"
            /\ UNCHANGED <<basic_score, feedback>>
       ELSE /\ basic_score' = 0
            /\ feedback' = <<>>
            /\ pc' = "length_check"
            /\ UNCHANGED ret
    /\ UNCHANGED <<password, score, result, checks_run,
                   zxcvbn_calls, strength_percentage, bar_color, message>>
    /\ UNCHANGED <<ZXCVBN_AVAILABLE, genVars>>

\* one rule check: a point when it passes, its message when it fails
RuleCheck(here, name, passes, msg, next) ==
    /\ pc = here
    /\ IF passes
       THEN /\ basic_score' = basic_score + 1
            /\ UNCHANGED feedback
       ELSE /\ feedback' = Append(feedback, msg)
            /\ UNCHANGED basic_score
    /\ checks_run' = checks_run \cup {name}
    /\ pc' = next

\* lines 36-39
CheckLength ==
    /\ RuleCheck("length_check", "length", length_ok(password.val), MSG_LENGTH, "case_check")
    /\ UNCHANGED <<password, score, result, ret,
                   zxcvbn_calls, strength_percentage, bar_color, message>>
    /\ UNCHANGED <<ZXCVBN_AVAILABLE, genVars>>

\* lines 41-44
CheckCase ==
    /\ RuleCheck("case_check", "case", case_ok(password.val), MSG_CASE, "digit_check")
    /\ UNCHANGED <<password, score, result, ret,
                   zxcvbn_calls, strength_percentage, bar_color, message>>
    /\ UNCHANGED <<ZXCVBN_AVAILABLE, genVars>>

\* lines 46-49
CheckDigit ==
    /\ RuleCheck("digit_check", "digit", digit_ok(password.val), MSG_DIGIT, "special_check")
    /\ UNCHANGED <<password, score, result, ret,
                   zxcvbn_calls, strength_percentage, bar_color, message>>
    /\ UNCHANGED <<ZXCVBN_AVAILABLE, genVars>>

\* lines 51-56: the last check, then score = basic_score
CheckSpecial ==
    /\ RuleCheck("special_check", "special", special_ok(password.val), MSG_SPECIAL, "estimator")
    /\ score' = basic_only(basic_score')
    /\ UNCHANGED <<password, result, ret,
                   zxcvbn_calls, strength_percentage, bar_color, message>>
    /\ UNCHANGED <<ZXCVBN_AVAILABLE, genVars>>

\* lines 58-67, the estimator present: zxcvbn answers r
CallZxcvbn ==
    /\ pc = "estimator"
    /\ calls_estimator(ZXCVBN_AVAILABLE)
    /\ \E r \in ZxcvbnResults :
        /\ result' = r
        /\ score' = average(basic_score, r.score)
        /\ feedback' = with_estimator_feedback(feedback, r)
    /\ zxcvbn_calls' = zxcvbn_calls + 1
    /\ ret' = [score |-> score', feedback |-> feedback']
    /\ pc' = "returned"
    /\ UNCHANGED <<password, basic_score, checks_run,
                   strength_percentage, bar_color, message>>
    /\ UNCHANGED <<ZXCVBN_AVAILABLE, genVars>>

\* lines 58 and 67, the estimator absent
SkipZxcvbn ==
    /\ pc = "estimator"
    /\ ~calls_estimator(ZXCVBN_AVAILABLE)
    /\ ret' = [score |-> score, feedback |-> feedback]
    /\ pc' = "returned"
    /\ UNCHANGED <<password, basic_score, feedback, score, result, checks_run,
                   zxcvbn_calls, strength_percentage, bar_color, message>>
    /\ UNCHANGED <<ZXCVBN_AVAILABLE, genVars>>

\* lines 115-133: the caller maps the score to a percentage, a colour and a tier
Render ==
    /\ pc = "returned"
    /\ strength_percentage' = percentage(ret.score)
    /\ bar_color' = get_progress_color(strength_percentage')
    /\ message' = strength_message(ret.score)
    /\ pc' = "rendered"
    /\ UNCHANGED <<password, basic_score, feedback, score, result, ret, checks_run,
                   zxcvbn_calls>>
    /\ UNCHANGED <<ZXCVBN_AVAILABLE, genVars>>

\* nothing of a call outlives it
Forget ==
    /\ pc = "rendered"
    /\ pc' = "idle"
    /\ password' = NoInput
    /\ basic_score' = 0
    /\ feedback' = <<>>
    /\ score' = 0
    /\ result' = NoResult
    /\ ret' = NoReturn
    /\ checks_run' = {}
    /\ zxcvbn_calls' = 0
    /\ strength_percentage' = -1
    /\ bar_color' = ""
    /\ message' = ""
    /\ UNCHANGED <<ZXCVBN_AVAILABLE, genVars>>

\* generate_strong_password(n) is called
GenCall(n) ==
    /\ gen_pc = "idle"
    /\ length' = n
    /\ todo' = range_len(n)
    /\ chosen' = <<>>
    /\ gen_pc' = "choosing"
    /\ UNCHANGED generated
    /\ UNCHANGED <<ZXCVBN_AVAILABLE, evalVars>>

\* line 74: one random.choice(characters)
GenChoose ==
    /\ gen_pc = "choosing"
    /\ todo > 0
    /\ \E i \in 1..Len(characters) : chosen' = Append(chosen, characters[i])
    /\ todo' = todo - 1
    /\ UNCHANGED <<gen_pc, length, generated>>
    /\ UNCHANGED <<ZXCVBN_AVAILABLE, evalVars>>

\* line 74: ''.join(...) is returned
GenReturn ==
    /\ gen_pc = "choosing"
    /\ todo = 0
    /\ generated' = chosen
    /\ gen_pc' = "returned"
    /\ UNCHANGED <<length, todo, chosen>>
    /\ UNCHANGED <<ZXCVBN_AVAILABLE, evalVars>>

GenForget ==
    /\ gen_pc = "returned"
    /\ gen_pc' = "idle"
    /\ length' = 0
    /\ todo' = 0
    /\ chosen' = <<>>
    /\ generated' = <<>>
    /\ UNCHANGED <<ZXCVBN_AVAILABLE, evalVars>>

Next ==
    \/ \E p \in Inputs : Call(p)
    \/ CheckType
    \/ CheckCommon
    \/ CheckLength
    \/ CheckCase
    \/ CheckDigit
    \/ CheckSpecial
    \/ CallZxcvbn
    \/ SkipZxcvbn
    \/ Render
    \/ Forget

Spec == Init /\ [][Next]_vars

GenNext ==
    \/ \E n \in -1..MaxGenLen : GenCall(n)
    \/ GenChoose
    \/ GenReturn
    \/ GenForget

SpecGen == Init /\ [][GenNext]_vars

\* ----------------------------------------------------------------- claims
\* the call has returned to its caller
Returned == pc \in {"returned", "rendered"}

\* s is the entry c in some mixture of upper and lower case
SameIgnoringCase(s, c) ==
    /\ Len(s) = Len(c)
    /\ \A i \in 1..Len(c) : s[i] = c[i] \/ (c[i] \in 97..122 /\ s[i] = c[i] - 32)

CommonMix(p) ==
    p.type = "str" /\ \E c \in COMMON_PASSWORDS : SameIgnoringCase(p.val, c)

Rejected(p) == p.type # "str" \/ CommonMix(p)

CommonRejection  == [score |-> 0, feedback |-> <<MSG_COMMON>>]
InvalidRejection == [score |-> 0, feedback |-> <<MSG_INVALID>>]

\* C1: a common password, in any mixture of case, gets score 0 and exactly
\* the "too common" message, with or without the estimator.
C1_CommonRejected == (Returned /\ CommonMix(password)) => ret = CommonRejection

C1_Witness ==
    /\ pc = "returned"
    /\ ZXCVBN_AVAILABLE
    /\ CommonMix(password)
    /\ password.val \notin COMMON_PASSWORDS
    /\ ret = CommonRejection

\* C2: an input that is not a str gets score 0 and exactly the "invalid
\* input" message as a returned value, and none of the four checks runs.
C2_InvalidRejected ==
    (Returned /\ password.type # "str")
        => (ret = InvalidRejection /\ checks_run = {} /\ zxcvbn_calls = 0)

C2_Witness ==
    /\ pc = "returned"
    /\ password.type = "bytes"
    /\ ret = InvalidRejection

\* the four checks as the documentation words them
HasUpper(s)   == \E i \in 1..Len(s) : s[i] \in 65..90
HasLower(s)   == \E i \in 1..Len(s) : s[i] \in 97..122
HasDigit09(s) == \E i \in 1..Len(s) : s[i] \in 48..57
HasSpecial(s) == \E i \in 1..Len(s) : s[i] \in {33, 35, 36, 37, 38, 42, 64, 94}

Failures(s) ==
    (IF Len(s) >= 8 THEN <<>> ELSE <<MSG_LENGTH>>)
        \o (IF HasUpper(s) /\ HasLower(s) THEN <<>> ELSE <<MSG_CASE>>)
        \o (IF HasDigit09(s) THEN <<>> ELSE <<MSG_DIGIT>>)
        \o (IF HasSpecial(s) THEN <<>> ELSE <<MSG_SPECIAL>>)

\* C3: without the estimator, a string that is not common gets as score the
\* number of the four checks (length >= 8, both cases, a digit 0-9, a
\* special character) that pass, and as feedback the messages of the failed
\* checks in the order length, case, digit, special.
C3_RuleScore ==
    (Returned /\ ~ZXCVBN_AVAILABLE /\ ~Rejected(password))
        => /\ ret.feedback = Failures(password.val)
           /\ ret.score = 2 * (4 - Len(Failures(password.val)))

\* C3, on the passwords whose digits are all ASCII: the statement holds.
C3_RuleScoreAsciiDigits ==
    (Returned /\ ~ZXCVBN_AVAILABLE /\ ~Rejected(password)
       /\ \A i \in 1..Len(password.val) : password.val[i] \notin 1632..1641)
        => /\ ret.feedback = Failures(password.val)
           /\ ret.score = 2 * (4 - Len(Failures(password.val)))

\* C4: the returned score is basic_score without the estimator and
\* (basic_score + advanced_score) / 2 with it, and lies in [0,4].
C4_CombinedScore ==
    (Returned /\ ~Rejected(password))
        => /\ ~ZXCVBN_AVAILABLE => ret.score = 2 * basic_score
           /\ ZXCVBN_AVAILABLE => ret.score = basic_score + result.score
           /\ ret.score \in 0..8

C4_Witness ==
    /\ pc = "returned"
    /\ ZXCVBN_AVAILABLE
    /\ ~Rejected(password)
    /\ basic_score = 4
    /\ result.score = 3
    /\ ret.score = 7

RULE_ORDER == <<MSG_LENGTH, MSG_CASE, MSG_DIGIT, MSG_SPECIAL>>

\* fb is a selection of the rule messages, in the order of the checks
InCheckOrder(fb) ==
    \E pick \in SUBSET (1..4) :
        /\ Len(fb) = Cardinality(pick)
        /\ \A i \in 1..Len(fb) :
              \E k \in pick : /\ fb[i] = RULE_ORDER[k]
                              /\ Cardinality({j \in pick : j < k}) = i - 1

\* C5: with the estimator, the feedback is the rule messages in check order,
\* then the warning if and only if it is non-empty, then the suggestions in
\* the order given.
C5_FeedbackOrder ==
    (Returned /\ ZXCVBN_AVAILABLE /\ ~Rejected(password))
        => LET fb    == ret.feedback
               rules == 4 - basic_score
               warn  == IF result.warning = "" THEN 0 ELSE 1
               sugg  == result.suggestions
           IN  /\ Len(fb) = rules + warn + Len(sugg)
               /\ InCheckOrder(SubSeq(fb, 1, rules))
               /\ warn = 1 => fb[rules + 1] = result.warning
               /\ \A i \in 1..Len(sugg) : fb[rules + warn + i] = sugg[i]

C5_Witness ==
    /\ pc = "returned"
    /\ ZXCVBN_AVAILABLE
    /\ ~Rejected(password)
    /\ basic_score = 2
    /\ result.warning = "W"
    /\ result.suggestions = <<"S2", "S1">>
    /\ Len(ret.feedback) = 5

\* round(num / den), halves going to the even neighbour
RoundHalfEven(num, den) ==
    LET q == num \div den
        r == num % den
    IN  IF 2 * r < den THEN q
        ELSE IF 2 * r > den THEN q + 1
        ELSE IF q % 2 = 0 THEN q ELSE q + 1

\* C6 as stated: the percentage is min(round(score / 4 * 100), 100).
C6_Rounded ==
    pc = "rendered"
        => /\ strength_percentage = Min(RoundHalfEven(ret.score * 100, 8), 100)
           /\ strength_percentage \in 0..100

\* C6, amended: the percentage is min(int(score / 4 * 100), 100), the
\* fraction dropped; it lies in [0,100], 4 gives 100 and 0 gives 0.
C6_Truncated ==
    pc = "rendered"
        => /\ strength_percentage \in 0..100
           /\ 8 * strength_percentage <= 100 * ret.score
           /\ 100 * ret.score < 8 * (strength_percentage + 1)
           /\ ret.score = 8 => strength_percentage = 100
           /\ ret.score = 0 => strength_percentage = 0

C6_Witness ==
    /\ pc = "rendered"
    /\ ret.score = 3
    /\ strength_percentage = 37

\* 26 uppercase + 26 lowercase + 10 digits + !@#$%^&*
POOL == (65..90) \cup (97..122) \cup (48..57) \cup {33, 35, 36, 37, 38, 42, 64, 94}

\* C7: for n >= 1 the generator returns n characters of the 70-symbol pool;
\* for n <= 0 it returns the empty string.
C7_Generated ==
    gen_pc = "returned"
        => /\ Cardinality(POOL) = 70
           /\ length >= 1 => /\ Len(generated) = length
                             /\ \A i \in 1..Len(generated) : generated[i] \in POOL
           /\ length <= 0 => generated = <<>>

C7_Witness ==
    /\ gen_pc = "returned"
    /\ length = 2
    /\ generated = <<42, 57>>

ALL_CHECKS == {"length", "case", "digit", "special"}

\* C8: a rejected input never reaches the estimator and its rejection is
\* what is returned; the estimator is called at most once in a call, and
\* only after all four rule checks.
C8_EstimatorCalls ==
    /\ Rejected(password) => zxcvbn_calls = 0
    /\ (Returned /\ password.type # "str") => ret = InvalidRejection
    /\ (Returned /\ CommonMix(password)) => ret = CommonRejection
    /\ zxcvbn_calls <= 1
    /\ zxcvbn_calls = 1 => checks_run = ALL_CHECKS

C8_Witness ==
    /\ pc = "rendered"
    /\ ZXCVBN_AVAILABLE
    /\ CommonMix(password)
    /\ zxcvbn_calls = 0
    /\ checks_run = {}

\* C9: the digit check passes exactly when the password holds one of the
\* ten digits 0-9; a digit outside 0-9 does not pass it.
C9_DigitCheck ==
    (Returned /\ ~Rejected(password))
        => ((\A i \in 1..Len(ret.feedback) : ret.feedback[i] # MSG_DIGIT)
               <=> HasDigit09(password.val))

RED    == "#F44336"
ORANGE == "#FF9800"
GREEN  == "#4CAF50"

\* C10: a Strong score (>= 3.5) always has the green bar (percentage >= 70),
\* a red bar (percentage < 40) only comes with Weak (score < 2.5), and tier
\* and colour differ only where the tier is Moderate or the colour orange.
C10_TierColour ==
    pc = "rendered"
        => /\ ret.score >= 7 =>
                message = "Strong" /\ strength_percentage >= 70 /\ bar_color = GREEN
           /\ strength_percentage < 40 =>
                bar_color = RED /\ ret.score < 5 /\ message = "Weak"
           /\ \/ message = "Weak" /\ bar_color = RED
              \/ message = "Strong" /\ bar_color = GREEN
              \/ message = "Moderate"
              \/ bar_color = ORANGE

C10_Witness ==
    /\ pc = "rendered"
    /\ ret.score = 7
    /\ message = "Strong"
    /\ strength_percentage = 87
    /\ bar_color = GREEN

====
